---- MODULE Spec2Model ----
(***************************************************************************)
(* Model of the S3 storage configuration panel (S3ConfigPanel) and of the  *)
(* connectivity-test endpoint (pages/api/storage/test-s3.ts).              *)
(*                                                                         *)
(* The panel and the endpoint share no state: the panel never calls the    *)
(* endpoint.  Spec and FairSpec explore the panel, HandlerSpec          *)
(* explores one request after another through the endpoint handler.        *)
(***************************************************************************)
EXTENDS Naturals, Sequences, FiniteSets, TLC

VARIABLES
    \* ---- S3ConfigPanel (React component state and its closures) ----
    config,         \* useState<S3Config>: the local editing copy
    settings,       \* useSettingsStore().settings, restricted to s3Config
    testResult,     \* useState<{success, message} | null>
    isTesting,      \* useState(false)
    pendingSaves,   \* number of saveConfigToStore calls suspended at
                    \* `await saveSettings`
    pendingTests,   \* number of handleTestConnection calls suspended at the
                    \* timer
    \* ---- test-s3 request handler ----
    hpc,            \* position of the handler: idle, cors, method, probe, done
    req,            \* the request being handled: method and body
    res,            \* the response sent, or NoResponse
    corsRan,        \* runMiddleware(req, res, corsAllMethods) has completed
    s3Client,       \* the S3Client constructed for this request, or NoClient
    probesSent,     \* number of HeadBucket commands sent for this request
    caught          \* the error the catch block received, or NoError

panelVars   == <<config, settings, testResult, isTesting, pendingSaves, pendingTests>>
handlerVars == <<hpc, req, res, corsRan, s3Client, probesSent, caught>>
vars        == <<config, settings, testResult, isTesting, pendingSaves, pendingTests,
                 hpc, req, res, corsRan, s3Client, probesSent, caught>>

(***************************************************************************)
(* Bounds.                                                                 *)
(***************************************************************************)
\* Store writes that may be in flight at once (each edit issues its own).
MaxPendingSaves == 1

\* Cap on suspended handleTestConnection calls; the button's disabled
\* attribute keeps the panel below it.
MaxPendingTests == 2

(***************************************************************************)
(* JavaScript values.                                                      *)
(***************************************************************************)
\* The value `undefined` of a string-typed property (a property left out).
Undefined == "<undefined>"

\* !x for a string-typed property: undefined and '' are falsy.
Falsy(x) == x = Undefined \/ x = ""

(***************************************************************************)
(* S3Config.                                                               *)
(***************************************************************************)
Fields == {"endpoint", "accessKeyId", "secretAccessKey", "region", "bucket", "pathStyle"}

DefaultConfig ==
    [endpoint |-> "", accessKeyId |-> "", secretAccessKey |-> "",
     region |-> "", bucket |-> "", pathStyle |-> FALSE]

\* What a user can type into (or toggle on) each input of the form.
InputValues(field) ==
    CASE field = "endpoint"        -> {"", "https://minio.local"}
      [] field = "accessKeyId"     -> {"", "AK"}
      [] field = "secretAccessKey" -> {"", "SK"}
      [] field = "region"          -> {"", "eu-west-1"}
      [] field = "bucket"          -> {"", "b"}
      [] field = "pathStyle"       -> {FALSE, TRUE}

\* settings.s3Config is absent until a configuration has been stored.
Absent == [absent |-> TRUE]

\* Values another part of the application may put in settings.s3Config: any
\* configuration, with the secret present, empty or left out, or none at all.
StoreValues ==
    {Absent} \cup
    [endpoint : InputValues("endpoint"), accessKeyId : InputValues("accessKeyId"),
     secretAccessKey : InputValues("secretAccessKey") \cup {Undefined},
     region : InputValues("region"), bucket : InputValues("bucket"),
     pathStyle : InputValues("pathStyle")]

(***************************************************************************)
(* S3ConfigPanel.                                                          *)
(***************************************************************************)
NoResult == [null |-> TRUE]

\* _(key, {error}): the translation key with {{error}} interpolated.
Translate(key, error) == key \o error

SaveSucceeded == [success |-> TRUE, message |-> "S3 configuration saved successfully"]
SaveFailed(error) ==
    [success |-> FALSE, message |-> Translate("Failed to save S3 configuration: ", error)]
ConnectionTestSucceeded == [success |-> TRUE, message |-> "Connection test successful"]

\* Messages with which saveSettings may reject.
PersistErrors == {"disk full"}

\* JSON.stringify of the five non-secret properties, in the order listed.
NonSecretString(c) == <<c.endpoint, c.accessKeyId, c.region, c.bucket, c.pathStyle>>

\* The effect on [settings.s3Config]: the local config after the effect has
\* run with local config cfg against store value s3.
Reconcile(cfg, s3) ==
    IF s3 /= Absent
    THEN IF NonSecretString(cfg) /= NonSecretString(s3)
         THEN s3                                   \* setConfig({...settings.s3Config})
         ELSE cfg
    ELSE IF \/ ~Falsy(cfg.endpoint) \/ ~Falsy(cfg.accessKeyId) \/ ~Falsy(cfg.region)
            \/ ~Falsy(cfg.bucket) \/ cfg.pathStyle
         THEN [DefaultConfig EXCEPT !.secretAccessKey = cfg.secretAccessKey]
         ELSE cfg

\* handleChange: { ...config, [field]: value }
NewConfig(cfg, field, value) == [cfg EXCEPT ![field] = value]

\* saveConfigToStore: { ...settings, s3Config: newConfig }
NewSettings(s, newConfig) == [s EXCEPT !.s3Config = newConfig]

\* A button that is never disabled.
TestButtonDisabled_Never == FALSE

\* The button's disabled attribute.
TestButtonDisabled == isTesting

\* A test that reports with the message of a store write.
TestOutcome_SaveMessage == SaveSucceeded

\* The try block of handleTestConnection: the awaited timer promise always
\* resolves and config is never read, so the result is the success message
\* and the catch block is never entered.
TestOutcome == ConnectionTestSucceeded

PanelInit ==
    /\ settings \in [s3Config : StoreValues]
    /\ config = Reconcile(DefaultConfig, settings.s3Config)     \* effect on mount
    /\ testResult = NoResult
    /\ isTesting = FALSE
    /\ pendingSaves = 0
    /\ pendingTests = 0

\* onChange of an input: handleChange(field, value), which calls
\* saveConfigToStore(newConfig) up to its await; the effect on
\* [settings.s3Config] runs in the render that follows.
HandleChange(field, value) ==
    /\ pendingSaves < MaxPendingSaves
    /\ value /= config[field]
    /\ LET newConfig   == NewConfig(config, field, value)
           newSettings == NewSettings(settings, newConfig)
       IN /\ settings' = newSettings
          /\ config' = Reconcile(newConfig, newSettings.s3Config)
          /\ pendingSaves' = pendingSaves + 1
    /\ UNCHANGED <<testResult, isTesting, pendingTests>>

\* await saveSettings(envConfig, newSettings) resolves.
SaveResolves ==
    /\ pendingSaves > 0
    /\ testResult' = SaveSucceeded
    /\ pendingSaves' = pendingSaves - 1
    /\ UNCHANGED <<config, settings, isTesting, pendingTests>>

\* await saveSettings(envConfig, newSettings) rejects: the catch block.
SaveRejects(error) ==
    /\ pendingSaves > 0
    /\ testResult' = SaveFailed(error)
    /\ pendingSaves' = pendingSaves - 1
    /\ UNCHANGED <<config, settings, isTesting, pendingTests>>

\* onClick of the Test Connection button: handleTestConnection up to its await.
HandleTestConnection ==
    /\ ~TestButtonDisabled
    /\ pendingTests < MaxPendingTests
    /\ isTesting' = TRUE
    /\ testResult' = NoResult
    /\ pendingTests' = pendingTests + 1
    /\ UNCHANGED <<config, settings, pendingSaves>>

\* The awaited timer fires: the rest of the try block, then finally.
TestTimerFires ==
    /\ pendingTests > 0
    /\ testResult' = TestOutcome
    /\ isTesting' = FALSE
    /\ pendingTests' = pendingTests - 1
    /\ UNCHANGED <<config, settings, pendingSaves>>

\* The parent invokes the function registered through onRegisterReset.
ResetFn ==
    /\ config' = DefaultConfig
    /\ UNCHANGED <<settings, testResult, isTesting, pendingSaves, pendingTests>>

\* Another part of the application replaces settings.s3Config; the effect on
\* [settings.s3Config] runs in the render that follows.
ExternalStoreChange(v) ==
    /\ settings' = [settings EXCEPT !.s3Config = v]
    /\ config' = Reconcile(config, v)
    /\ UNCHANGED <<testResult, isTesting, pendingSaves, pendingTests>>

(***************************************************************************)
(* test-s3 request handler.                                                *)
(***************************************************************************)
NoRequest  == [none |-> TRUE]
NoResponse == [none |-> TRUE]
NoClient   == [none |-> TRUE]
NoError    == [none |-> TRUE]

Methods == {"POST", "GET", "PUT"}

\* Request bodies: every property may be left out, empty or set.
Bodies ==
    [endpoint : {Undefined, "", "https://minio.local"},
     accessKeyId : {Undefined, "", "AK"},
     secretAccessKey : {Undefined, "", "SK"},
     region : {Undefined, "", "eu-west-1"},
     bucket : {Undefined, "", "b"},
     pathStyle : {Undefined, "false", "true"}]

\* Errors with which s3Client.send(command) may reject.
ProbeErrors ==
    {[name |-> "NoSuchBucket", message |-> "The specified bucket does not exist"],
     [name |-> "NotFound", message |-> "UnknownError"],
     [name |-> "TimeoutError", message |-> "connect ETIMEDOUT"]}

\* res.status(code).json(body)
Response(code, body) == [code |-> code, body |-> body]

\* A method check that turns away GET alone.
MethodNotAllowed_GetOnly(method) == method = "GET"

\* req.method !== 'POST'
MethodNotAllowed(method) == method /= "POST"

\* A validation that forgets the bucket.
MissingRequiredFields_NoBucket(body) ==
    Falsy(body.accessKeyId) \/ Falsy(body.secretAccessKey)

\* !accessKeyId || !secretAccessKey || !bucket
MissingRequiredFields(body) ==
    Falsy(body.accessKeyId) \/ Falsy(body.secretAccessKey) \/ Falsy(body.bucket)

\* new S3Client({...}): x || fallback for endpoint, region and pathStyle.
NewS3Client(body) ==
    [endpoint       |-> IF Falsy(body.endpoint) THEN Undefined ELSE body.endpoint,
     region         |-> IF Falsy(body.region) THEN "us-east-1" ELSE body.region,
     credentials    |-> [accessKeyId |-> body.accessKeyId,
                         secretAccessKey |-> body.secretAccessKey],
     forcePathStyle |-> body.pathStyle = "true"]

\* A catch block that always passes the error's message through.
FailureDetail_Raw(error) == error.message

\* error.name === 'NoSuchBucket' ? 'Bucket not found' : error.message
FailureDetail(error) ==
    IF error.name = "NoSuchBucket" THEN "Bucket not found" ELSE error.message

HandlerInit ==
    /\ hpc = "idle"
    /\ req = NoRequest
    /\ res = NoResponse
    /\ corsRan = FALSE
    /\ s3Client = NoClient
    /\ probesSent = 0
    /\ caught = NoError

\* A request arrives: the handler is entered and calls runMiddleware.
HandlerStart(method, body) ==
    /\ hpc = "idle"
    /\ req' = [method |-> method, body |-> body]
    /\ res' = NoResponse
    /\ corsRan' = FALSE
    /\ s3Client' = NoClient
    /\ probesSent' = 0
    /\ caught' = NoError
    /\ hpc' = "cors"

\* await runMiddleware(req, res, corsAllMethods) completes.  The middleware
\* lives in @/utils/cors; it is taken to let every method through.
RunMiddleware ==
    /\ hpc = "cors"
    /\ corsRan' = TRUE
    /\ hpc' = "method"
    /\ UNCHANGED <<req, res, s3Client, probesSent, caught>>

\* if (req.method !== 'POST') return res.status(405)...
RejectMethod ==
    /\ hpc = "method"
    /\ MethodNotAllowed(req.method)
    /\ res' = Response(405, [error |-> "Method not allowed"])
    /\ hpc' = "done"
    /\ UNCHANGED <<req, corsRan, s3Client, probesSent, caught>>

\* if (!accessKeyId || !secretAccessKey || !bucket) return res.status(400)...
RejectMissingFields ==
    /\ hpc = "method"
    /\ ~MethodNotAllowed(req.method)
    /\ MissingRequiredFields(req.body)
    /\ res' = Response(400,
           [error |-> "Missing required fields: accessKeyId, secretAccessKey, or bucket"])
    /\ hpc' = "done"
    /\ UNCHANGED <<req, corsRan, s3Client, probesSent, caught>>

\* new S3Client(...), new HeadBucketCommand(...), s3Client.send(command) up
\* to its await.
SendProbe ==
    /\ hpc = "method"
    /\ ~MethodNotAllowed(req.method)
    /\ ~MissingRequiredFields(req.body)
    /\ s3Client' = NewS3Client(req.body)
    /\ probesSent' = probesSent + 1
    /\ hpc' = "probe"
    /\ UNCHANGED <<req, res, corsRan, caught>>

\* await s3Client.send(command) resolves.
ProbeResolves ==
    /\ hpc = "probe"
    /\ res' = Response(200, [success |-> TRUE, message |-> "Connection test successful"])
    /\ hpc' = "done"
    /\ UNCHANGED <<req, corsRan, s3Client, probesSent, caught>>

\* await s3Client.send(command) rejects: the catch block.
ProbeRejects(error) ==
    /\ hpc = "probe"
    /\ res' = Response(500,
           [success |-> FALSE,
            message |-> "Connection test failed: " \o FailureDetail(error)])
    /\ caught' = error
    /\ hpc' = "done"
    /\ UNCHANGED <<req, corsRan, s3Client, probesSent>>

\* The handler's promise settles; nothing of the request outlives it.
HandlerReturns ==
    /\ hpc = "done"
    /\ hpc' = "idle"
    /\ req' = NoRequest
    /\ res' = NoResponse
    /\ corsRan' = FALSE
    /\ s3Client' = NoClient
    /\ probesSent' = 0
    /\ caught' = NoError

(***************************************************************************)
(* Specifications.                                                         *)
(***************************************************************************)
Init == PanelInit /\ HandlerInit

Next ==
    \/ \E field \in Fields : \E value \in InputValues(field) :
           HandleChange(field, value) /\ UNCHANGED handlerVars
    \/ SaveResolves /\ UNCHANGED handlerVars
    \/ \E error \in PersistErrors : SaveRejects(error) /\ UNCHANGED handlerVars
    \/ HandleTestConnection /\ UNCHANGED handlerVars
    \/ TestTimerFires /\ UNCHANGED handlerVars
    \/ ResetFn /\ UNCHANGED handlerVars
    \/ \E v \in StoreValues : ExternalStoreChange(v) /\ UNCHANGED handlerVars

\* The panel.
Spec == Init /\ [][Next]_vars

\* The panel, with the event loop firing every timer that has been set.
FairSpec == Spec /\ WF_vars(TestTimerFires /\ UNCHANGED handlerVars)

HandlerNext ==
    \/ \E method \in Methods : \E body \in Bodies :
           HandlerStart(method, body) /\ UNCHANGED panelVars
    \/ RunMiddleware /\ UNCHANGED panelVars
    \/ RejectMethod /\ UNCHANGED panelVars
    \/ RejectMissingFields /\ UNCHANGED panelVars
    \/ SendProbe /\ UNCHANGED panelVars
    \/ ProbeResolves /\ UNCHANGED panelVars
    \/ \E error \in ProbeErrors : ProbeRejects(error) /\ UNCHANGED panelVars
    \/ HandlerReturns /\ UNCHANGED panelVars

HandlerSpecInit ==
    /\ settings = [s3Config |-> Absent]
    /\ config = DefaultConfig
    /\ testResult = NoResult
    /\ isTesting = FALSE
    /\ pendingSaves = 0
    /\ pendingTests = 0
    /\ HandlerInit

\* The endpoint, one request after another, beside an untouched panel.
HandlerSpec == HandlerSpecInit /\ [][HandlerNext]_vars

(***************************************************************************)
(* Properties of the request handler (HandlerSpec).                        *)
(***************************************************************************)
\* accessKeyId, secretAccessKey or bucket is left out of the body or empty.
LacksRequiredField(c) ==
    \/ c.accessKeyId \in {Undefined, ""}
    \/ c.secretAccessKey \in {Undefined, ""}
    \/ c.bucket \in {Undefined, ""}

\* C1: a POST request whose body lacks accessKeyId, secretAccessKey or bucket
\* (left out or empty) never gets a storage client or a HeadBucket probe, and
\* is answered 400 {error: "Missing required fields: ..."}.
C1_MissingFieldsRejected ==
    (req /= NoRequest /\ req.method = "POST" /\ LacksRequiredField(req.body)) =>
        /\ s3Client = NoClient
        /\ probesSent = 0
        /\ hpc \in {"cors", "method", "done"}
        /\ hpc = "done" =>
               res = [code |-> 400,
                      body |-> [error |-> "Missing required fields: accessKeyId, secretAccessKey, or bucket"]]
        /\ hpc /= "done" => res = NoResponse

C1_Witness ==
    /\ hpc = "done"
    /\ req.method = "POST"
    /\ req.body.accessKeyId = "AK" /\ req.body.secretAccessKey = "SK"
    /\ req.body.bucket = Undefined
    /\ res.code = 400

\* C2: a POST request with non-empty accessKeyId, secretAccessKey and bucket
\* sends exactly one probe and is answered by its outcome: 200 with
\* "Connection test successful" when it resolves, 500 with "Connection test
\* failed: Bucket not found" when it rejects with a NoSuchBucket error, 500
\* with "Connection test failed: " and the error's message otherwise.
C2_ResponseFollowsProbe ==
    (hpc = "done" /\ req.method = "POST" /\ ~LacksRequiredField(req.body)) =>
        /\ probesSent = 1
        /\ s3Client /= NoClient
        /\ caught = NoError =>
               res = [code |-> 200,
                      body |-> [success |-> TRUE, message |-> "Connection test successful"]]
        /\ (caught /= NoError /\ caught.name = "NoSuchBucket") =>
               res = [code |-> 500,
                      body |-> [success |-> FALSE,
                                message |-> "Connection test failed: Bucket not found"]]
        /\ (caught /= NoError /\ caught.name /= "NoSuchBucket") =>
               res = [code |-> 500,
                      body |-> [success |-> FALSE,
                                message |-> "Connection test failed: " \o caught.message]]

C2_Witness ==
    /\ hpc = "done"
    /\ req.method = "POST"
    /\ probesSent = 1
    /\ caught /= NoError /\ caught.name = "NoSuchBucket"
    /\ res.code = 500

\* C9: a request whose method is not POST is answered 405 whatever its body
\* holds, without a storage client or a probe; and no response of the handler
\* is sent before the cross-origin middleware has run.
C9_OtherMethodsRejected ==
    /\ (req /= NoRequest /\ req.method /= "POST") =>
           /\ s3Client = NoClient
           /\ probesSent = 0
           /\ hpc \in {"cors", "method", "done"}
           /\ hpc = "done" => (res /= NoResponse /\ res.code = 405)
    /\ (res /= NoResponse \/ hpc \in {"method", "probe", "done"}) => corsRan

C9_Witness ==
    /\ hpc = "done"
    /\ req.method = "GET"
    /\ ~LacksRequiredField(req.body)
    /\ res.code = 405
    /\ corsRan

(***************************************************************************)
(* Properties of the panel (Spec, FairSpec).                               *)
(***************************************************************************)
\* A step in which an edit issues its store write.
EditStep == pendingSaves' > pendingSaves

\* A step in which a store write fails and its failure is put on display.
SaveFailureStep ==
    /\ pendingSaves' < pendingSaves
    /\ testResult' /= NoResult
    /\ ~testResult'.success

\* A step in which a connectivity test ends.
TestEndStep == isTesting /\ ~isTesting'

\* C3: a test ends in TestResult with the outcome of ConnectivityChecker.check
\* on the panel's ConfigValue; so a test that ends while accessKeyId,
\* secretAccessKey or bucket is empty does not end in TestResult(success).
C3_TestResultIsCheckOutcome ==
    [][(TestEndStep /\ LacksRequiredField(config) /\ LacksRequiredField(config'))
          => ~(testResult' /= NoResult /\ testResult'.success)]_vars

\* C4: an external store change whose value leaves the secret out or carries
\* an empty one never erases a non-empty secret held in the local ConfigValue,
\* whether or not its other fields differ from the local ones.
C4_LocalSecretNeverErased ==
    [][(/\ config.secretAccessKey \notin {Undefined, ""}
        /\ \E v \in StoreValues \ {Absent} :
               /\ v.secretAccessKey \in {Undefined, ""}
               /\ ExternalStoreChange(v))
          => config'.secretAccessKey = config.secretAccessKey]_vars

\* C5: when the store write of an edit fails, the failed change does not stay
\* applied: with that write the only one in flight and its value on display
\* and in the in-memory settings (config = settings.s3Config), the failure
\* takes the change back from both.
C5_FailedWriteNotApplied ==
    [][(SaveFailureStep /\ pendingSaves = 1 /\ config = settings.s3Config)
          => (config' /= config /\ settings'.s3Config /= settings.s3Config)]_vars

\* C6: the registered reset function restores every field of the local
\* ConfigValue to its empty default and leaves the store's ConfigValue at the
\* empty default as well.
C6_ResetPersisted ==
    [][(ResetFn /\ UNCHANGED handlerVars)
          => (config' = DefaultConfig /\ settings'.s3Config \in {DefaultConfig, Absent})]_vars

\* C7: after an edit the store holds the new value in the edited field and,
\* in every other field, the value the store held before the edit (a secret
\* left out and an empty secret read alike).
C7_OtherFieldsKeepStoreValue ==
    [][(EditStep /\ settings.s3Config /= Absent)
          => \E f \in Fields :
                 \A g \in Fields \ {f} :
                     \/ settings'.s3Config[g] = settings.s3Config[g]
                     \/ /\ g = "secretAccessKey"
                        /\ settings'.s3Config[g] \in {Undefined, ""}
                        /\ settings.s3Config[g] \in {Undefined, ""}]_vars

\* C8: at most one connectivity test is in flight, the test action is not
\* enabled while isTesting is true, and every started test ends with
\* isTesting false.
C8_OneTestInFlight ==
    /\ [](/\ pendingTests <= 1
          /\ isTesting <=> pendingTests = 1
          /\ isTesting => ~ENABLED HandleTestConnection)
    /\ (isTesting ~> ~isTesting)

C8_Witness == isTesting /\ pendingTests = 1 /\ pendingSaves > 0

\* C10 as stated: no result is displayed while a test is in flight, and the
\* result shown when the test ends is the test's outcome, not a store
\* write's.
C10_NoResultWhileTesting ==
    [][/\ isTesting' => testResult' = NoResult
       /\ TestEndStep => testResult' = ConnectionTestSucceeded]_vars

\* C10 as amended: no result is displayed right after a test starts, and the
\* result shown at the step the test ends is the test's outcome, not a store
\* write's; in between, a store write that completes displays its own result.
C10_ResultAtStartAndEnd ==
    [][/\ (~isTesting /\ isTesting') => testResult' = NoResult
       /\ TestEndStep =>
              testResult' = [success |-> TRUE, message |-> "Connection test successful"]]_vars

C10_Witness ==
    /\ ~isTesting
    /\ pendingTests = 0
    /\ pendingSaves > 0
    /\ testResult = [success |-> TRUE, message |-> "Connection test successful"]

====
